---- MODULE Spec2Model ----
(***************************************************************************)
(* Model of app/external.py: the four route handlers (current_weather,     *)
(* job_opportunities, get_forecast, rental_listing), the module-level      *)
(* configuration they read, and the helpers get_record, get_url and        *)
(* generate_climate_url.                                                   *)
(*                                                                         *)
(* A Python str is a sequence of one-character strings (a run of           *)
(* non-blank characters that no operation looks into may be written as one *)
(* token).  A JSON object is a function from the keys it carries; a JSON     *)
(* null is None.  An exception that leaves a handler is the result kind    *)
(* "unhandled".                                                            *)
(***************************************************************************)
EXTENDS Integers, Sequences, FiniteSets, TLC

VARIABLES environ, process, weather_api, handler, pc, request, location,
          calls, response, result, steps

vars == <<environ, process, weather_api, handler, pc, request, location,
          calls, response, result, steps>>

(***************************************************************************)
(* Bounds of the model.                                                    *)
(***************************************************************************)
MaxLen == 4        \* longest enumerated city string (generate_climate_url)
MaxCards == 11     \* most job cards on a page
MaxCells == 13     \* most "high" (or "low") cells on a climate page
MaxResults == 2    \* most entries of the rental provider's results array
MaxLimit == 3      \* largest limit of a rental request

\* Python's None (also what a JSON null parses to)
None == [py_none |-> TRUE]

(***************************************************************************)
(* Python str operations.                                                  *)
(***************************************************************************)
Whitespace == {" ", "\t", "\n"}

lower_char(c) ==
    CASE c = "A" -> "a"
      [] c = "N" -> "n"
      [] c = "Y" -> "y"
      [] c = "Z" -> "z"
      [] OTHER -> c

lower(s) == [i \in 1..Len(s) |-> lower_char(s[i])]

RECURSIVE lstrip(_)
lstrip(s) ==
    IF s # <<>> /\ Head(s) \in Whitespace THEN lstrip(Tail(s)) ELSE s

RECURSIVE rstrip(_)
rstrip(s) ==
    IF s # <<>> /\ s[Len(s)] \in Whitespace
    THEN rstrip(SubSeq(s, 1, Len(s) - 1))
    ELSE s

strip(s) == rstrip(lstrip(s))

\* s.split(): the maximal runs of non-whitespace characters, in order
RECURSIVE split_from(_, _, _)
split_from(s, word, acc) ==
    IF s = <<>>
    THEN IF word = <<>> THEN acc ELSE Append(acc, word)
    ELSE IF Head(s) \in Whitespace
         THEN split_from(Tail(s), <<>>,
                         IF word = <<>> THEN acc ELSE Append(acc, word))
         ELSE split_from(Tail(s), Append(word, Head(s)), acc)

split(s) == split_from(s, <<>>, <<>>)

\* ' '.join(words)
RECURSIVE join_space(_)
join_space(words) ==
    IF words = <<>> THEN <<>>
    ELSE IF Len(words) = 1 THEN words[1]
    ELSE words[1] \o <<" ">> \o join_space(Tail(words))

\* seq[-n:]
last_n(seq, n) ==
    IF Len(seq) <= n THEN seq ELSE SubSeq(seq, Len(seq) - n + 1, Len(seq))

\* seq[:n] for n >= 0
first_n(seq, n) == IF Len(seq) <= n THEN seq ELSE SubSeq(seq, 1, n)

Min(a, b) == IF a <= b THEN a ELSE b
Max(a, b) == IF a >= b THEN a ELSE b

(***************************************************************************)
(* generate_climate_url.                                                   *)
(***************************************************************************)
\* a replacement that stops after the first space
clean_segment_first_space_only(string) ==
    LET s == strip(lower(string))
        first == IF \E i \in 1..Len(s) : s[i] = " "
                 THEN CHOOSE i \in 1..Len(s) :
                        s[i] = " " /\ \A j \in 1..(i - 1) : s[j] # " "
                 ELSE 0
    IN  [i \in 1..Len(s) |-> IF i = first THEN "-" ELSE s[i]]

\* one pass of the loop body, lines 166-174
clean_segment(string) ==
    LET s == strip(lower(string))
    IN  IF \E i \in 1..Len(s) : s[i] = " "
        THEN [i \in 1..Len(s) |-> IF s[i] = " " THEN "-" ELSE s[i]]
        ELSE s

ClimateOrigin == <<"https://www.usclimatedata.com/climate/">>
ClimateTail == <<"/", "u", "n", "i", "t", "e", "d", "-", "s", "t", "a", "t", "e", "s", "/">>

generate_climate_url(city, state) ==
    LET cleaned_input == <<clean_segment(city), clean_segment(state)>>
    IN  ClimateOrigin \o cleaned_input[1] \o <<"/">> \o cleaned_input[2]
            \o ClimateTail

(***************************************************************************)
(* Outcomes of a handler, as the framework turns them into a response.     *)
(***************************************************************************)
\* the handler returned body
returned(body) == [kind |-> "ok", error |-> "", body |-> body]
\* an HTTPException raised on purpose: a structured error response
http_error(name) == [kind |-> "http_error", error |-> name, body |-> <<>>]
\* any other exception leaving the handler
unhandled(exc) == [kind |-> "unhandled", error |-> exc, body |-> <<>>]

NoResult == [kind |-> "none", error |-> "", body |-> <<>>]
NoResponse == [status |-> "none", body |-> <<>>]
NoLocation == [city |-> <<>>, state |-> <<>>]
NoRequest == [city |-> <<>>, state |-> <<>>, position |-> <<>>, limit |-> 0]

Restrict(f, K) == [k \in K |-> f[k]]

(***************************************************************************)
(* app.ml.validate_city and app.state_abbr.us_state_abbrev.                *)
(***************************************************************************)
upper_char(c) ==
    CASE c = "a" -> "A"
      [] c = "n" -> "N"
      [] c = "y" -> "Y"
      [] c = "z" -> "Z"
      [] OTHER -> c

upper(s) == [i \in 1..Len(s) |-> upper_char(s[i])]

us_state_abbrev == {<<"N", "Y">>}

validate_city(city) ==
    LET token == upper(strip(city.state))
    IN  IF token \in us_state_abbrev
        THEN [ok |-> TRUE, city |-> [city |-> strip(city.city), state |-> token]]
        ELSE [ok |-> FALSE, city |-> NoLocation]

(***************************************************************************)
(* Inputs.                                                                 *)
(***************************************************************************)
NewYork == <<"N", "e", "w", " ", "Y", "o", "r", "k">>

Cities == {NewYork, <<"A", "a">>}
StateTokens == {<<"N", "Y">>, <<" ", "n", "y">>, <<"Z", "Z">>}
Positions == {<<"nurse">>}
Limits == (0 - 1)..MaxLimit

Handlers == {"current_weather", "job_opportunities", "get_forecast",
             "rental_listing"}

Requests(h) ==
    {[city |-> c, state |-> s, position |-> p, limit |-> l] :
        c \in Cities, s \in StateTokens,
        p \in (IF h = "job_opportunities" THEN Positions ELSE {<<>>}),
        l \in (IF h = "rental_listing" THEN Limits ELSE {0})}

(***************************************************************************)
(* Module import: lines 14-17 and 221-231.                                 *)
(***************************************************************************)
Init ==
    /\ environ \in [{"WEATHER_API_KEY", "RENTAL_API_KEY"} -> BOOLEAN]
    /\ process = "importing"
    /\ weather_api = None
    /\ handler = "none"
    /\ pc = "idle"
    /\ request = NoRequest
    /\ location = NoLocation
    /\ calls = <<>>
    /\ response = NoResponse
    /\ result = NoResult
    /\ steps = <<>>

\* os.getenv(name): the value, or None when the variable is not set
getenv(name) == IF environ[name] THEN <<"key:", name>> ELSE None

\* importing the module: weather_api is read with os.getenv (line 17);
\* Settings() (line 228) raises a validation error when RENTAL_API_KEY,
\* a required field, is not set, which ends the import
import_module ==
    /\ process = "importing"
    /\ weather_api' = getenv("WEATHER_API_KEY")
    /\ process' = IF environ["RENTAL_API_KEY"] THEN "serving" ELSE "config_error"
    /\ UNCHANGED <<environ, handler, pc, request, location, calls, response,
                   result, steps>>

\* the router hands an inbound request to its handler; the handlers are
\* coroutines that block in requests.get, so a worker runs one at a time
accept_request ==
    /\ process = "serving"
    /\ pc = "idle"
    /\ \E h \in Handlers : \E r \in Requests(h) :
          /\ handler' = h
          /\ request' = r
    /\ pc' = "received"
    /\ location' = NoLocation
    /\ calls' = <<>>
    /\ response' = NoResponse
    /\ result' = NoResult
    /\ steps' = <<>>
    /\ UNCHANGED <<environ, process, weather_api>>

\* the framework sends the handler's outcome; the worker is free again
send_response ==
    /\ process = "serving"
    /\ pc = "done"
    /\ pc' = "idle"
    /\ handler' = "none"
    /\ request' = NoRequest
    /\ location' = NoLocation
    /\ calls' = <<>>
    /\ response' = NoResponse
    /\ result' = NoResult
    /\ steps' = <<>>
    /\ UNCHANGED <<environ, process, weather_api>>

(***************************************************************************)
(* Steps shared by the handlers' translations.                             *)
(***************************************************************************)
\* a handler that goes on after the validator has failed
validated_unchecked(h) ==
    /\ process = "serving" /\ handler = h /\ pc = "received"
    /\ LET v == validate_city(request)
       IN  /\ location' = IF v.ok THEN v.city
                          ELSE [city |-> request.city, state |-> request.state]
           /\ steps' = Append(steps, IF v.ok THEN "validate_ok" ELSE "validate_failed")
    /\ pc' = "validated"
    /\ UNCHANGED <<environ, process, weather_api, handler, request, calls,
                   response, result>>

\* location = validate_city(city): the handler goes on with the normalized
\* city, or the validator's InvalidLocation error ends it
validated(h) ==
    /\ process = "serving" /\ handler = h /\ pc = "received"
    /\ LET v == validate_city(request)
       IN  IF v.ok
           THEN /\ location' = v.city
                /\ pc' = "validated"
                /\ result' = result
                /\ steps' = Append(steps, "validate_ok")
           ELSE /\ location' = location
                /\ pc' = "done"
                /\ result' = http_error("InvalidLocation")
                /\ steps' = Append(steps, "validate_failed")
    /\ UNCHANGED <<environ, process, weather_api, handler, request, calls,
                   response>>

\* requests.get(url): one outbound call; it returns a response whose body
\* is one of bodies, or raises (connection failure)
outbound(h, upstream, url, bodies) ==
    /\ process = "serving" /\ handler = h /\ pc = "validated"
    /\ calls' = Append(calls, [upstream |-> upstream, url |-> url])
    /\ steps' = Append(steps, "call")
    /\ \/ /\ \E b \in bodies : response' = [status |-> "received", body |-> b]
          /\ pc' = "fetched"
          /\ result' = result
       \/ /\ response' = [status |-> "failed", body |-> <<>>]
          /\ pc' = "done"
          /\ result' = unhandled("ConnectionError")
    /\ UNCHANGED <<environ, process, weather_api, handler, request, location>>

\* the rest of the handler, run on the received body
extracted(h, outcome) ==
    /\ process = "serving" /\ handler = h /\ pc = "fetched"
    /\ result' = outcome
    /\ pc' = "done"
    /\ steps' = Append(steps, "extract")
    /\ UNCHANGED <<environ, process, weather_api, handler, request, location,
                   calls, response>>

(***************************************************************************)
(* current_weather, lines 42-62.                                           *)
(***************************************************************************)
MainKeys == {"temp", "temp_max", "temp_min", "humidity", "feels_like", "pressure"}

FullMain == [k \in MainKeys |-> <<k, "value">>]
FullWeatherJson ==
    [main |-> FullMain,
     weather |-> <<[description |-> <<"clear sky">>]>>,
     wind |-> [speed |-> <<"speed", "value">>]]

\* the payloads of the weather provider: the full one, and the full one
\* with one key of main removed, or with main, weather, weather[0],
\* weather[0].description, wind or wind.speed removed
WeatherBodies ==
    {FullWeatherJson}
    \cup {[FullWeatherJson EXCEPT !.main = Restrict(FullMain, MainKeys \ {k})] :
            k \in MainKeys}
    \cup {Restrict(FullWeatherJson, {"main", "weather", "wind"} \ {k}) :
            k \in {"main", "weather", "wind"}}
    \cup {[FullWeatherJson EXCEPT !.weather = <<>>],
          [FullWeatherJson EXCEPT !.weather = <<Restrict(FullWeatherJson.weather[1], {})>>],
          [FullWeatherJson EXCEPT !.wind = Restrict(FullWeatherJson.wind, {})]}

today == <<"today">>
strftime(date, format) == <<date, format>>
str(value) == <<"str", value>>

\* lines 42-46: the URL is a concatenation of str values; adding None to a
\* str raises TypeError
weather_api_call ==
    IF weather_api = None
    THEN [ok |-> FALSE, url |-> <<>>]
    ELSE [ok |-> TRUE,
          url |-> <<"http://api.openweathermap.org/data/2.5/weather?q=">>
                    \o location.city \o <<",">> \o location.state
                    \o <<",", "US", "&appid=">> \o weather_api
                    \o <<"&mode=json&units=imperial">>]

\* lines 49-62, in evaluation order
weather_report(data) ==
    IF "main" \notin DOMAIN data THEN unhandled("KeyError")
    ELSE LET main == data.main IN
    IF "weather" \notin DOMAIN data THEN unhandled("KeyError")
    ELSE IF Len(data.weather) = 0 THEN unhandled("IndexError")
    ELSE IF "description" \notin DOMAIN data.weather[1] THEN unhandled("KeyError")
    ELSE IF \E k \in {"temp", "temp_max", "temp_min", "humidity"} : k \notin DOMAIN main
         THEN unhandled("KeyError")
    ELSE IF "wind" \notin DOMAIN data THEN unhandled("KeyError")
    ELSE IF "speed" \notin DOMAIN data.wind THEN unhandled("KeyError")
    ELSE IF \E k \in {"feels_like", "pressure"} : k \notin DOMAIN main
         THEN unhandled("KeyError")
    ELSE returned(
           ("Date" :> strftime(today, "%m/%d/%y"))
        @@ ("Description" :> data.weather[1].description)
        @@ ("Temperature" :> str(main.temp) \o <<" F", "deg">>)
        @@ ("High Today" :> str(main.temp_max) \o <<" F", "deg">>)
        @@ ("Low Today" :> str(main.temp_min) \o <<" F", "deg">>)
        @@ ("Humidity" :> str(main.humidity) \o <<"%">>)
        @@ ("Wind Speed" :> str(data.wind.speed) \o <<" mph">>)
        @@ ("Feels Like" :> str(main.feels_like) \o <<" F", "deg">>)
        @@ ("Pressure" :> str(main.pressure) \o <<" hPa">>))

current_weather_validate == validated("current_weather")

current_weather_fetch ==
    IF weather_api_call.ok
    THEN outbound("current_weather", "openweathermap", weather_api_call.url,
                  WeatherBodies)
    ELSE /\ process = "serving" /\ handler = "current_weather"
         /\ pc = "validated"
         /\ result' = unhandled("TypeError")
         /\ pc' = "done"
         /\ UNCHANGED <<environ, process, weather_api, handler, request,
                        location, calls, response, steps>>

current_weather_extract ==
    extracted("current_weather", weather_report(response.body))

(***************************************************************************)
(* job_opportunities, get_record and get_url, lines 91-150.                *)
(*                                                                         *)
(* A parsed page (soup) is a record: cards, the elements of class          *)
(* jobsearch-SerpJobCard in document order, and searchCountPages, the text *)
(* of that element when the page has one.  A card is a function from the   *)
(* elements it holds to their text or attributes; find() of an element the *)
(* card does not hold returns None.                                        *)
(***************************************************************************)
Tok(prefix, i) == prefix \o ToString(i)

FullCard(i) ==
    [h2a |-> [title |-> <<Tok("title", i)>>, href |-> <<"/rc/clk?jk=", ToString(i)>>],
     company |-> <<"\n", Tok("company", i), " ">>,
     recJobLoc |-> <<Tok("loc", i)>>,
     summary |-> <<" ", Tok("summary", i), "\n">>,
     date |-> <<Tok("date", i), " ">>,
     salarytext |-> <<"\n", Tok("salary", i)>>]

CardDefects == {"none", "no_salary", "no_company", "no_href", "repeated"}

Card(i, defect) ==
    CASE defect = "no_salary" ->
            Restrict(FullCard(i), DOMAIN FullCard(i) \ {"salarytext"})
      [] defect = "no_company" ->
            Restrict(FullCard(i), DOMAIN FullCard(i) \ {"company"})
      [] defect = "no_href" ->
            [FullCard(i) EXCEPT !.h2a = Restrict(FullCard(i).h2a, {"title"})]
      [] defect = "repeated" -> FullCard(IF i > 1 THEN i - 1 ELSE i)
      [] OTHER -> FullCard(i)

SearchCountTexts ==
    {<<"\n", "Page", " ", "1", " ", "of", " ", "234", " ", "jobs">>,
     <<"jobs">>, <<>>}

\* pages of n cards, one of which (at p) may be defective, with or without
\* the searchCountPages element
JobPages ==
    {[cards |-> [i \in 1..n |-> IF i = pd[1] THEN Card(i, pd[2]) ELSE FullCard(i)]] :
        n \in 0..MaxCards, pd \in (1..MaxCards) \X CardDefects}
    \cup
    {[cards |-> [i \in 1..n |-> IF i = pd[1] THEN Card(i, pd[2]) ELSE FullCard(i)],
      searchCountPages |-> t] :
        n \in 0..MaxCards, pd \in {1, MaxCards} \X {"none", "no_salary"},
        t \in SearchCountTexts}

get_url(position, loc) ==
    <<"https://www.indeed.com/jobs?q=">> \o position \o <<"&l=">> \o loc

\* a salary lookup whose AttributeError is not caught
get_record_salary_required(card) ==
    IF "h2a" \notin DOMAIN card THEN [raised |-> "AttributeError", record |-> <<>>]
    ELSE IF \E k \in {"company", "recJobLoc", "summary", "date", "salarytext"} :
               k \notin DOMAIN card
         THEN [raised |-> "AttributeError", record |-> <<>>]
    ELSE IF "href" \notin DOMAIN card.h2a
         THEN [raised |-> "TypeError", record |-> <<>>]
    ELSE [raised |-> "",
          record |->
               ("Job Title" :> card.h2a.title)
            @@ ("Company" :> strip(card.company))
            @@ ("Location" :> card.recJobLoc)
            @@ ("Date Posted" :> strip(card.date))
            @@ ("Extract Date" :> strftime(today, "%Y-%m-%d"))
            @@ ("Description" :> strip(card.summary))
            @@ ("Salary" :> strip(card.salarytext))
            @@ ("Job Url" :> <<"https://www.indeed.com">> \o card.h2a.href)]

\* lines 116-142
get_record(card) ==
    IF "h2a" \notin DOMAIN card THEN [raised |-> "AttributeError", record |-> <<>>]
    ELSE LET atag == card.h2a
             job_title == IF "title" \in DOMAIN atag THEN atag.title ELSE None
    IN
    IF \E k \in {"company", "recJobLoc", "summary", "date"} : k \notin DOMAIN card
    THEN [raised |-> "AttributeError", record |-> <<>>]
    ELSE LET salary == IF "salarytext" \in DOMAIN card
                       THEN strip(card.salarytext)
                       ELSE <<>>     \* except AttributeError: salary = ''
    IN
    IF "href" \notin DOMAIN atag
    THEN [raised |-> "TypeError", record |-> <<>>]
    ELSE [raised |-> "",
          record |->
               ("Job Title" :> job_title)
            @@ ("Company" :> strip(card.company))
            @@ ("Location" :> card.recJobLoc)
            @@ ("Date Posted" :> strip(card.date))
            @@ ("Extract Date" :> strftime(today, "%Y-%m-%d"))
            @@ ("Description" :> strip(card.summary))
            @@ ("Salary" :> salary)
            @@ ("Job Url" :> <<"https://www.indeed.com">> \o atag.href)]

\* lines 106-112
search_results(soup) ==
    IF "searchCountPages" \in DOMAIN soup
    THEN join_space(last_n(split(strip(soup.searchCountPages)), 2))
    ELSE <<>>                        \* except AttributeError: jobs = ''

\* lines 98-114: every card found is turned into a record; the first
\* exception of get_record leaves the handler
job_listings(soup) ==
    LET cards == soup.cards
        got == [i \in 1..Len(cards) |-> get_record(cards[i])]
        bad == {i \in 1..Len(cards) : got[i].raised # ""}
    IN  IF bad # {}
        THEN unhandled(got[CHOOSE i \in bad : \A j \in bad : i <= j].raised)
        ELSE returned(
                 ("Search Results" :> search_results(soup))
              @@ ("Top 10 Listings" :> [i \in 1..Len(cards) |-> got[i].record]))

job_opportunities_validate == validated("job_opportunities")

job_opportunities_fetch ==
    outbound("job_opportunities", "indeed",
             get_url(request.position, location.city \o <<" ">> \o location.state),
             JobPages)

job_opportunities_extract ==
    extracted("job_opportunities", job_listings(response.body))

(***************************************************************************)
(* get_forecast, lines 196-218.                                            *)
(*                                                                         *)
(* A parsed climate page is a record of the texts of its                   *)
(* td.high.text-right cells and of its td.low.text-right cells, each in    *)
(* document order.                                                         *)
(***************************************************************************)
MonthsTaken == 12

Digits == <<"0", "1", "2", "3", "4", "5", "6", "7", "8", "9">>
IsDigit(c) == \E d \in 1..10 : Digits[d] = c
DigitValue(c) == (CHOOSE d \in 1..10 : Digits[d] = c) - 1

RECURSIVE digits_value(_, _)
digits_value(s, acc) ==
    IF s = <<>> THEN acc
    ELSE digits_value(Tail(s), 10 * acc + DigitValue(Head(s)))

\* int(text): an optional sign and one or more decimal digits, blanks
\* around them ignored; anything else raises ValueError
int(text) ==
    LET t == strip(text)
        signed == t # <<>> /\ Head(t) \in {"-", "+"}
        body == IF signed THEN Tail(t) ELSE t
    IN  IF body = <<>> \/ \E k \in 1..Len(body) : ~IsDigit(body[k])
        THEN [raised |-> "ValueError", value |-> 0]
        ELSE [raised |-> "",
              value |-> IF signed /\ Head(t) = "-"
                        THEN 0 - digits_value(body, 0)
                        ELSE digits_value(body, 0)]

\* the decimal text of an integer, as the page prints it
RECURSIVE nat_text(_)
nat_text(n) ==
    IF n < 10 THEN <<Digits[n + 1]>>
    ELSE nat_text(n \div 10) \o <<Digits[(n % 10) + 1]>>

int_text(n) == IF n < 0 THEN <<"-">> \o nat_text(0 - n) ELSE nat_text(n)

HighValue(i) == 95 + i
LowValue(i) == i - 4

HighCell(i) == IF i % 2 = 0 THEN <<"\n", " ">> \o int_text(HighValue(i)) \o <<" ">>
               ELSE int_text(HighValue(i))
LowCell(i) == IF i % 3 = 0 THEN <<" ">> \o int_text(LowValue(i)) \o <<"\n">>
              ELSE int_text(LowValue(i))

NotANumber == {<<"n", "/", "a">>, <<" ">>}

\* pages with h high cells and l low cells holding integers, and the same
\* pages with the text of one cell replaced by one that is no integer
ClimatePages ==
    {[high |-> [i \in 1..h |-> HighCell(i)], low |-> [i \in 1..l |-> LowCell(i)]] :
        h \in 0..MaxCells, l \in 0..MaxCells}
    \cup
    {[high |-> [i \in 1..h |-> IF i = p THEN t ELSE HighCell(i)],
      low |-> [i \in 1..l |-> LowCell(i)]] :
        h \in 1..MaxCells, l \in {0, MonthsTaken}, p \in 1..MaxCells, t \in NotANumber}
    \cup
    {[high |-> [i \in 1..h |-> HighCell(i)],
      low |-> [i \in 1..l |-> IF i = p THEN t ELSE LowCell(i)]] :
        h \in {0, MonthsTaken}, l \in 1..MaxCells, p \in 1..MaxCells, t \in NotANumber}

\* a loop over every cell found, with no slice
monthly_all_cells(cells) ==
    LET got == [i \in 1..Len(cells) |-> int(cells[i])]
        bad == {i \in 1..Len(cells) : got[i].raised # ""}
    IN  IF bad # {}
        THEN [raised |-> "ValueError", values |-> <<>>]
        ELSE [raised |-> "", values |-> [i \in 1..Len(cells) |-> got[i].value]]

\* lines 205-206 and 211-212: for temp in cells[:12]: append(int(text))
monthly(cells) ==
    LET taken == first_n(cells, MonthsTaken)
        got == [i \in 1..Len(taken) |-> int(taken[i])]
        bad == {i \in 1..Len(taken) : got[i].raised # ""}
    IN  IF bad # {}
        THEN [raised |-> "ValueError", values |-> <<>>]
        ELSE [raised |-> "", values |-> [i \in 1..Len(taken) |-> got[i].value]]

\* lines 202-218
forecast(soup) ==
    LET avg_high_monthly == monthly(soup.high)
        avg_low_monthly == monthly(soup.low)
    IN  IF avg_high_monthly.raised # "" THEN unhandled(avg_high_monthly.raised)
        ELSE IF avg_low_monthly.raised # "" THEN unhandled(avg_low_monthly.raised)
        ELSE returned([avg_high |-> avg_high_monthly.values,
                       avg_low |-> avg_low_monthly.values])

get_forecast_validate == validated("get_forecast")

get_forecast_fetch ==
    outbound("get_forecast", "usclimatedata",
             generate_climate_url(location.city, location.state), ClimatePages)

get_forecast_extract == extracted("get_forecast", forecast(response.body))

(***************************************************************************)
(* rental_listing, lines 258-328.                                          *)
(***************************************************************************)
FullEntry(i) ==
    [location |->
        [address |-> [coordinate |-> [lat |-> <<"lat", i>>, lon |-> <<"lon", i>>],
                      line |-> <<"line", i>>,
                      city |-> <<"city", i>>,
                      state |-> <<"state", i>>]],
     pet_policy |-> [cats |-> <<TRUE>>, dogs |-> <<FALSE>>],
     description |-> [baths_max |-> <<"baths", i>>, beds_max |-> <<"beds", i>>],
     list_price_max |-> <<"price", i>>,
     tags |-> <<"pool", Tok("tag", i)>>,
     photos |-> <<Tok("photo", i)>>]

RequiredKeys == {"location", "pet_policy", "list_price_max"}
OptionalKeys == {"description", "tags", "photos"}

EntryKinds ==
    {"full", "null_pet_policy", "null_description", "no_baths_max",
     "null_location", "no_line"}
    \cup {"no_" \o k : k \in RequiredKeys \cup OptionalKeys}

Entry(i, kind) ==
    IF kind = "full" THEN FullEntry(i)
    ELSE IF kind = "null_pet_policy" THEN [FullEntry(i) EXCEPT !.pet_policy = None]
    ELSE IF kind = "null_description" THEN [FullEntry(i) EXCEPT !.description = None]
    ELSE IF kind = "no_baths_max"
         THEN [FullEntry(i) EXCEPT !.description = Restrict(@, {"beds_max"})]
    ELSE IF kind = "null_location" THEN [FullEntry(i) EXCEPT !.location = None]
    ELSE IF kind = "no_line"
         THEN [FullEntry(i) EXCEPT !.location.address =
                                      Restrict(@, DOMAIN @ \ {"line"})]
    ELSE Restrict(FullEntry(i), {k \in DOMAIN FullEntry(i) : kind # "no_" \o k})

ResultArrays ==
    UNION {{[i \in 1..n |-> Entry(i, kinds[i])] : kinds \in [1..n -> EntryKinds]} :
              n \in 0..MaxResults}

\* the bodies of the rental provider: data.results, or a body without it
RentalBodies ==
    {[data |-> [results |-> a]] : a \in ResultArrays}
    \cup {[message |-> <<"no data">>], [data |-> [total |-> <<0>>]]}

\* a lookup that raises nothing
Value(v) == [raised |-> "", value |-> v]
Raise(exc) == [raised |-> exc, value |-> <<>>]

\* obj[key]
getitem(obj, key) ==
    IF obj = None THEN Raise("TypeError")
    ELSE IF key \notin DOMAIN obj THEN Raise("KeyError")
    ELSE Value(obj[key])

\* obj[key1][key2]...: the first subscript that raises ends the chain
RECURSIVE getitem_path(_, _)
getitem_path(obj, keys) ==
    IF keys = <<>> THEN Value(obj)
    ELSE IF getitem(obj, Head(keys)).raised # "" THEN getitem(obj, Head(keys))
    ELSE getitem_path(obj[Head(keys)], Tail(keys))

\* try: x = lookup / except AttributeError: x = default
try_except_AttributeError(lookup, default) ==
    IF lookup.raised = "AttributeError" THEN Value(default) ELSE lookup

\* the first exception among the lookups of one pass, in program order
FirstRaised(lookups) ==
    IF \E k \in 1..Len(lookups) : lookups[k].raised # ""
    THEN lookups[CHOOSE k \in 1..Len(lookups) :
                    /\ lookups[k].raised # ""
                    /\ \A j \in 1..(k - 1) : lookups[j].raised = ""].raised
    ELSE ""

\* lines 280-326: one pass of the loop, on response[i]
rental_elements(entry) ==
    LET lat == getitem_path(entry, <<"location", "address", "coordinate", "lat">>)
        lon == getitem_path(entry, <<"location", "address", "coordinate", "lon">>)
        line == getitem_path(entry, <<"location", "address", "line">>)
        city == getitem_path(entry, <<"location", "address", "city">>)
        state == getitem_path(entry, <<"location", "address", "state">>)
        pet_policy == getitem(entry, "pet_policy")
        baths == try_except_AttributeError(
                     getitem_path(entry, <<"description", "baths_max">>), <<0>>)
        bedrooms == try_except_AttributeError(
                        getitem_path(entry, <<"description", "beds_max">>), <<0>>)
        cats_allowed == IF pet_policy.raised = "" /\ pet_policy.value # None
                        THEN getitem_path(entry, <<"pet_policy", "cats">>)
                        ELSE Value(<<"Unknown">>)
        dogs_allowed == IF pet_policy.raised = "" /\ pet_policy.value # None
                        THEN getitem_path(entry, <<"pet_policy", "dogs">>)
                        ELSE Value(<<"Unknown">>)
        list_price == getitem(entry, "list_price_max")
        ammenities == try_except_AttributeError(getitem(entry, "tags"), <<>>)
        photos == try_except_AttributeError(getitem(entry, "photos"), None)
        raised == FirstRaised(<<lat, lon, line, city, state, pet_policy, baths, bedrooms,
                                cats_allowed, dogs_allowed, list_price,
                                ammenities, photos>>)
    IN  IF raised # "" THEN Raise(raised)
        ELSE Value(
               ("Latitude" :> lat.value)
            @@ ("Longitude" :> lon.value)
            @@ ("Street Address" :> line.value)
            @@ ("City" :> city.value)
            @@ ("State" :> state.value)
            @@ ("Bedrooms" :> bedrooms.value)
            @@ ("Bathrooms" :> baths.value)
            @@ ("Cats Allowed" :> cats_allowed.value)
            @@ ("Dogs Allowed" :> dogs_allowed.value)
            @@ ("List Price" :> list_price.value)
            @@ ("Ammenities" :> ammenities.value)
            @@ ("Photos" :> photos.value))

\* response[i] for i in range(limit), 0-based: IndexError past the end
rental_pass(results, i) ==
    IF i >= Len(results) THEN Raise("IndexError")
    ELSE rental_elements(results[i + 1])

\* a loop that stops at the end of the array
rental_loop_clamped(results, limit) ==
    LET n == Min(Max(limit, 0), Len(results))
        got == [i \in 1..n |-> rental_pass(results, i - 1)]
        bad == {i \in 1..n : got[i].raised # ""}
    IN  IF bad # {}
        THEN unhandled(got[CHOOSE i \in bad : \A j \in bad : i <= j].raised)
        ELSE returned([i \in 1..n |-> got[i].value])

\* lines 277-328: for i in range(limit); the first exception leaves the
\* handler and the list built so far is dropped
rental_loop(results, limit) ==
    LET n == Max(limit, 0)
        got == [i \in 1..n |-> rental_pass(results, i - 1)]
        bad == {i \in 1..n : got[i].raised # ""}
    IN  IF bad # {}
        THEN unhandled(got[CHOOSE i \in bad : \A j \in bad : i <= j].raised)
        ELSE returned([i \in 1..n |-> got[i].value])

\* lines 275-328
rental_list(body, limit) ==
    IF getitem_path(body, <<"data", "results">>).raised # ""
    THEN unhandled(getitem_path(body, <<"data", "results">>).raised)
    ELSE rental_loop(body.data.results, limit)

rental_listing_validate == validated("rental_listing")

rental_listing_fetch ==
    outbound("rental_listing", "realtor-com-real-estate",
             <<"https://realtor-com-real-estate.p.rapidapi.com/for-rent",
               "?city=">> \o location.city \o <<"&state_code=">> \o location.state
               \o <<"&limit=", ToString(request.limit)>>,
             RentalBodies)

rental_listing_extract ==
    extracted("rental_listing", rental_list(response.body, request.limit))

Next ==
    \/ import_module
    \/ accept_request
    \/ send_response
    \/ current_weather_validate
    \/ current_weather_fetch
    \/ current_weather_extract
    \/ job_opportunities_validate
    \/ job_opportunities_fetch
    \/ job_opportunities_extract
    \/ get_forecast_validate
    \/ get_forecast_fetch
    \/ get_forecast_extract
    \/ rental_listing_validate
    \/ rental_listing_fetch
    \/ rental_listing_extract

Spec == Init /\ [][Next]_vars

(***************************************************************************)
(* generate_climate_url on its own: the function applied to a city and a   *)
(* state, and applied again to the segments it has cleaned.                *)
(***************************************************************************)
UrlAlphabet == {"A", "y", " ", "-", "\t"}

Strings(n) == UNION {[1..k -> UrlAlphabet] : k \in 0..n}

UrlCities == Strings(MaxLen) \cup {NewYork}
UrlStates == {<<"N", "Y">>, <<" ", "N", " ", "y", "\t">>, <<"A", " ", "y", " ", "A">>}

InitUrl ==
    /\ environ = [k \in {"WEATHER_API_KEY", "RENTAL_API_KEY"} |-> TRUE]
    /\ process = "function"
    /\ weather_api = None
    /\ handler = "generate_climate_url"
    /\ pc = "args"
    /\ request \in {[city |-> c, state |-> s, position |-> <<>>, limit |-> 0] :
                        c \in UrlCities, s \in UrlStates}
    /\ location = NoLocation
    /\ calls = <<>>
    /\ response = NoResponse
    /\ result = NoResult
    /\ steps = <<>>

\* generate_climate_url(city, state); location keeps cleaned_input
url_generate ==
    /\ handler = "generate_climate_url" /\ pc = "args"
    /\ result' = returned(generate_climate_url(request.city, request.state))
    /\ location' = [city |-> clean_segment(request.city),
                    state |-> clean_segment(request.state)]
    /\ pc' = "built"
    /\ UNCHANGED <<environ, process, weather_api, handler, request, calls,
                   response, steps>>

\* generate_climate_url applied to the segments of the first result
url_generate_again ==
    /\ handler = "generate_climate_url" /\ pc = "built"
    /\ response' = [status |-> "again",
                    body |-> generate_climate_url(location.city, location.state)]
    /\ pc' = "rebuilt"
    /\ UNCHANGED <<environ, process, weather_api, handler, request, location,
                   calls, result, steps>>

NextUrl == url_generate \/ url_generate_again

SpecUrl == InitUrl /\ [][NextUrl]_vars

(***************************************************************************)
(* The claims.                                                             *)
(***************************************************************************)
InHandler == handler \in Handlers
Extracted == InHandler /\ pc = "done" /\ steps = <<"validate_ok", "call", "extract">>

\* C1: in every handler the city is validated before the outbound request,
\* and when validation fails the handler ends at once with the validator's
\* error and makes no outbound call.
C1_ValidationBeforeCall ==
    InHandler =>
      /\ pc = "received" => calls = <<>> /\ steps = <<>>
      /\ \A k \in 1..Len(steps) :
            steps[k] = "call" => k > 1 /\ steps[1] = "validate_ok"
      /\ Len(calls) > 0 => \E k \in 1..Len(steps) : steps[k] = "call"
      /\ (pc # "received" /\ ~validate_city(request).ok) =>
            /\ steps = <<"validate_failed">>
            /\ calls = <<>>
            /\ pc = "done"
            /\ result = http_error("InvalidLocation")

C1_Witness ==
    /\ handler = "rental_listing"
    /\ pc = "done"
    /\ request.state = <<"Z", "Z">>
    /\ steps = <<"validate_failed">>
    /\ calls = <<>>
    /\ result.error = "InvalidLocation"

\* C2: for a page with N job cards job_opportunities returns the first
\* min(N, 10) cards in document order, and never more than 10.
C2_AtMostTenListings ==
    (handler = "job_opportunities" /\ Extracted /\ result.kind = "ok") =>
        LET cards == response.body.cards
            listings == result.body["Top 10 Listings"]
        IN  /\ Len(listings) = Min(Len(cards), 10)
            /\ \A i \in 1..Len(listings) :
                  listings[i]["Job Title"] = cards[i].h2a.title

\* the entry has the address fields the loop reads
AddressReadable(e) ==
    /\ "location" \in DOMAIN e
    /\ e.location # None
    /\ "address" \in DOMAIN e.location
    /\ {"coordinate", "line", "city", "state"} \subseteq DOMAIN e.location.address
    /\ {"lat", "lon"} \subseteq DOMAIN e.location.address.coordinate

\* every subscript read of one pass of rental_listing's loop finds its key
EntryComplete(e) ==
    /\ {"location", "pet_policy", "description", "list_price_max", "tags",
        "photos"} \subseteq DOMAIN e
    /\ AddressReadable(e)
    /\ e.description # None
    /\ {"baths_max", "beds_max"} \subseteq DOMAIN e.description
    /\ e.pet_policy # None => {"cats", "dogs"} \subseteq DOMAIN e.pet_policy

HasResults(body) == "data" \in DOMAIN body /\ "results" \in DOMAIN body.data

RentalExtracted ==
    handler = "rental_listing" /\ Extracted /\ HasResults(response.body)

\* the listings are those of entries 0..n-1, in order
ListingsInOrder(listings, results, n) ==
    /\ Len(listings) = n
    /\ \A i \in 1..n :
          /\ listings[i]["Street Address"] = results[i].location.address.line
          /\ listings[i]["List Price"] = results[i].list_price_max

\* C3 as stated: when limit exceeds the number of entries the extraction
\* fails with an out-of-range error and no listing sequence is returned;
\* when limit is at most the number of entries exactly limit listings are
\* returned, for indices 0..limit-1 in order.
C3_AsStated ==
    RentalExtracted =>
        LET results == response.body.data.results
        IN  IF request.limit > Len(results)
            THEN result = unhandled("IndexError")
            ELSE /\ result.kind = "ok"
                 /\ Len(result.body) = request.limit
                 /\ ListingsInOrder(result.body, results, request.limit)

\* C3 amended: the loop fails at the first index i in 0..limit-1 that is
\* past the end of results (out-of-range error) or at which a subscript
\* read of the entry fails (a key error for a missing key, a type error for
\* a null object), and then no listing sequence is returned; when there is
\* no such index exactly max(limit, 0) listings are returned, for indices
\* 0..limit-1 in order.
C3_FailsAtFirstBadIndex ==
    RentalExtracted =>
        LET results == response.body.data.results
            n == Max(request.limit, 0)
            bad == {i \in 1..n : i > Len(results) \/ ~EntryComplete(results[i])}
            first == CHOOSE i \in bad : \A j \in bad : i <= j
        IN  IF bad = {}
            THEN /\ result.kind = "ok"
                 /\ ListingsInOrder(result.body, results, n)
            ELSE /\ result.kind = "unhandled"
                 /\ result.body = <<>>
                 /\ IF first > Len(results)
                    THEN result.error = "IndexError"
                    ELSE result.error \in {"KeyError", "TypeError"}

C3_Witness ==
    /\ RentalExtracted
    /\ request.limit = MaxLimit
    /\ Len(response.body.data.results) = MaxResults
    /\ \A i \in 1..MaxResults : EntryComplete(response.body.data.results[i])
    /\ result = unhandled("IndexError")

\* C4: a request that passes validation makes exactly one outbound call,
\* to one upstream source, and the call is over before extraction starts;
\* no handler calls twice.
C4_ExactlyOneCall ==
    InHandler =>
      /\ Len(calls) <= 1
      /\ (pc = "done" /\ steps # <<>> /\ steps[1] = "validate_ok") =>
            Len(calls) = 1
      /\ \A k \in 1..Len(steps) :
            steps[k] = "extract" => k = 3 /\ steps[2] = "call"

\* C5: with a required API key missing from the environment the process
\* fails at startup with a configuration error and never takes a request.
C5_FailsAtStartup ==
    (\E k \in DOMAIN environ : ~environ[k]) =>
        /\ process \in {"importing", "config_error"}
        /\ handler = "none"

\* an expected key of the weather payload is missing
WeatherKeyMissing(data) ==
    \/ ~({"main", "weather", "wind"} \subseteq DOMAIN data)
    \/ /\ {"main", "weather", "wind"} \subseteq DOMAIN data
       /\ \/ ~(MainKeys \subseteq DOMAIN data.main)
          \/ Len(data.weather) = 0
          \/ Len(data.weather) > 0 /\ "description" \notin DOMAIN data.weather[1]
          \/ "speed" \notin DOMAIN data.wind

\* C6: in current_weather a missing expected key of the upstream JSON ends
\* in a structured upstream-error response, not in an unhandled exception.
C6_MissingFieldIsStructured ==
    (handler = "current_weather" /\ Extracted /\ WeatherKeyMissing(response.body)) =>
        result.kind = "http_error"

\* the entry has what has no default: the address, the pet policy and the
\* list price
EntryRequiredPresent(e) ==
    /\ RequiredKeys \subseteq DOMAIN e
    /\ AddressReadable(e)
    /\ e.pet_policy # None => {"cats", "dogs"} \subseteq DOMAIN e.pet_policy

HasField(e, key, field) ==
    key \in DOMAIN e /\ e[key] # None /\ field \in DOMAIN e[key]

\* C7: in rental_listing an optional field that cannot be read gets its
\* default and the request goes on: baths and beds 0, amenities the empty
\* list, photos none.
C7_OptionalFieldsDefault ==
    RentalExtracted =>
        LET results == response.body.data.results
            n == Max(request.limit, 0)
        IN  (n <= Len(results) /\ \A i \in 1..n : EntryRequiredPresent(results[i])) =>
               /\ result.kind = "ok"
               /\ Len(result.body) = n
               /\ \A i \in 1..n :
                     /\ ~HasField(results[i], "description", "baths_max") =>
                           result.body[i]["Bathrooms"] = <<0>>
                     /\ ~HasField(results[i], "description", "beds_max") =>
                           result.body[i]["Bedrooms"] = <<0>>
                     /\ "tags" \notin DOMAIN results[i] =>
                           result.body[i]["Ammenities"] = <<>>
                     /\ "photos" \notin DOMAIN results[i] =>
                           result.body[i]["Photos"] = None

\* C8: cleaning a city or state segment is idempotent: generate_climate_url
\* applied to the segments it has cleaned gives the same URL, and the
\* cleaned segments are unchanged by cleaning; "New York", "NY" gives a URL
\* that ends in /new-york/ny/united-states/.
C8_CleaningIdempotent ==
    /\ pc \in {"built", "rebuilt"} =>
          /\ clean_segment(location.city) = location.city
          /\ clean_segment(location.state) = location.state
          /\ \A i \in 1..Len(location.city) :
                location.city[i] \notin {" ", "A", "N", "Y"}
    /\ pc = "rebuilt" => response.body = result.body
    /\ (pc \in {"built", "rebuilt"} /\ request.city = NewYork
           /\ request.state = <<"N", "Y">>) =>
          result.body = ClimateOrigin
              \o <<"n", "e", "w", "-", "y", "o", "r", "k", "/", "n", "y">>
              \o ClimateTail

C8_Witness ==
    /\ pc = "rebuilt"
    /\ request.city = <<"A", " ", "y">>
    /\ location.city = <<"a", "-", "y">>
    /\ request.state = <<" ", "N", " ", "y", "\t">>
    /\ location.state = <<"n", "-", "y">>
    /\ response.body = result.body

\* the first cells[:12] of the page hold the integers the page was written with
HighsAreIntegers(soup) ==
    \A i \in 1..Min(Len(soup.high), MonthsTaken) : soup.high[i] = HighCell(i)
LowsAreIntegers(soup) ==
    \A i \in 1..Min(Len(soup.low), MonthsTaken) : soup.low[i] = LowCell(i)

\* C9: for a climate page with H high cells and L low cells holding
\* integers, get_forecast returns as avg_high the integer values of the
\* first min(H, 12) high cells and as avg_low those of the first
\* min(L, 12) low cells, in document order; each list is built on its own
\* and neither is longer than 12.
C9_FirstTwelveOfEach ==
    (handler = "get_forecast" /\ Extracted
        /\ HighsAreIntegers(response.body) /\ LowsAreIntegers(response.body)) =>
        LET H == Len(response.body.high)
            L == Len(response.body.low)
        IN  /\ result.kind = "ok"
            /\ result.body.avg_high = [i \in 1..Min(H, 12) |-> HighValue(i)]
            /\ result.body.avg_low = [i \in 1..Min(L, 12) |-> LowValue(i)]
            /\ Len(result.body.avg_high) <= 12
            /\ Len(result.body.avg_low) <= 12

C9_Witness ==
    /\ handler = "get_forecast" /\ Extracted
    /\ Len(response.body.high) = 13
    /\ response.body.high[13] \in NotANumber
    /\ Len(response.body.low) = 12
    /\ result.kind = "ok"
    /\ Len(result.body.avg_high) = 12
    /\ result.body.avg_low[1] = 0 - 3

IsNonBlank(c) == c \notin Whitespace
NonBlank(text) == SelectSeq(text, IsNonBlank)

\* every element get_record reads without a fallback is on the card
CardRequiredPresent(card) ==
    /\ {"h2a", "company", "recJobLoc", "summary", "date"} \subseteq DOMAIN card
    /\ "href" \in DOMAIN card.h2a

\* C10: a card without the salary element gets the salary '' and its other
\* fields are extracted all the same; a page without the result-count
\* element gets the summary ''; neither absence ends the extraction.
C10_SalaryAndSummaryOptional ==
    (handler = "job_opportunities" /\ Extracted
        /\ \A i \in 1..Len(response.body.cards) :
              CardRequiredPresent(response.body.cards[i])) =>
        LET cards == response.body.cards
            listings == result.body["Top 10 Listings"]
        IN  /\ result.kind = "ok"
            /\ Len(listings) = Len(cards)
            /\ \A i \in 1..Len(cards) :
                  /\ "salarytext" \notin DOMAIN cards[i] =>
                        listings[i]["Salary"] = <<>>
                  /\ "salarytext" \in DOMAIN cards[i] =>
                        listings[i]["Salary"] = NonBlank(cards[i].salarytext)
                  /\ listings[i]["Job Title"] = cards[i].h2a.title
                  /\ listings[i]["Company"] = NonBlank(cards[i].company)
                  /\ listings[i]["Location"] = cards[i].recJobLoc
                  /\ listings[i]["Date Posted"] = NonBlank(cards[i].date)
                  /\ listings[i]["Description"] = NonBlank(cards[i].summary)
                  /\ listings[i]["Job Url"] =
                        <<"https://www.indeed.com">> \o cards[i].h2a.href
            /\ "searchCountPages" \notin DOMAIN response.body =>
                  result.body["Search Results"] = <<>>

C10_Witness ==
    /\ handler = "job_opportunities" /\ Extracted
    /\ Len(response.body.cards) = 3
    /\ "salarytext" \notin DOMAIN response.body.cards[2]
    /\ "searchCountPages" \notin DOMAIN response.body
    /\ result.kind = "ok"
    /\ result.body["Top 10 Listings"][2]["Salary"] = <<>>
    /\ result.body["Top 10 Listings"][2]["Company"] = <<"company2">>
    /\ result.body["Search Results"] = <<>>

====
